---- MODULE Spec2Model ----
(***************************************************************************)
(* Model of the delivery-efficiency dashboard repository:                  *)
(*   scripts/data_gen.py  the generator of the seven CSV tables            *)
(*   scripts/viz.py       the renderer that loads them and writes the HTML *)
(*   upload.py            the interactive upload utility                   *)
(*                                                                         *)
(* Conventions.  Text whose ordering or formatting the code relies on      *)
(* (device ids, dates, timestamps, weekday names, file names) is a         *)
(* sequence of character codes, compared as Python compares str.  Text     *)
(* that is only ever tested for equality (city, zone, status names) is a   *)
(* TLA+ string.  Reals are fixed-point integers; the unit is named where   *)
(* the value is computed.  The clock counts minutes since 1970-01-01.      *)
(***************************************************************************)
EXTENDS Integers, Sequences, FiniteSets, TLC

VARIABLES
    pc,          \* position of the generator script
    stream,      \* which sequence of draws the seeded global streams produce
    entropy,     \* the entropy the process took from the system at start
    now,         \* wall clock read by datetime.now(), minutes since the epoch
    drift,       \* minutes the clock has advanced since the script started
    npPos,       \* draws consumed from the numpy global stream
    pyPos,       \* draws consumed from the random-module global stream
    written,     \* names of the CSV files written so far
    devices,     \* data_gen.py devices / master_df
    performance, \* data_gen.py performance / perf_df
    loads,       \* data_gen.py loads / loads_df
    heatmap_data,\* data_gen.py heatmap_data (long format)
    heat_df,     \* data_gen.py heat_df (pivoted)
    flows,       \* data_gen.py flows / flows_df
    events,      \* data_gen.py events (unsorted list)
    events_df,   \* data_gen.py events_df (sorted)
    summary,     \* data_gen.py summary
    config,      \* data_gen.py: the weight vectors the script is configured with
    data_dir,    \* data_gen.py: whether the directory data/ is there
    run,         \* which run of the generator this is
    firstRun,    \* the tables of the first run, kept to compare a replay with
    vpc,         \* position of the renderer script
    files,       \* viz.py: what data/ holds under each of the seven file names
    charts,      \* viz.py: the figures the create_* functions have returned
    printed,     \* viz.py: the messages the script has printed
    exception,   \* viz.py: the exception that ended the script, if one did
    html,        \* viz.py: whether outputs/delivery_dashboard.html is written
    images,      \* viz.py: the PNG files save_plot_images has written
    upc,         \* position of the upload utility
    os_sep,      \* upload.py: os.sep of the platform, a character code
    tree,        \* upload.py: the files under the three local folders
    present,     \* upload.py: the local folders that exist
    data_row_id, \* upload.py: the id typed and accepted, the prefix of every name
    confirm,     \* upload.py: the answer to the confirmation, stripped and lower-cased
    folder,      \* upload.py: position of the loop over the three folders
    uploads,     \* upload.py: the calls of upload_file_to_gcs made
    shown        \* upload.py: the messages the utility has printed

genVars == <<pc, stream, entropy, now, drift, npPos, pyPos, written, devices, performance,
             loads, heatmap_data, heat_df, flows, events, events_df, summary, config,
             data_dir>>

replayVars == <<run, firstRun>>

vizVars == <<vpc, files, charts, printed, exception, html, images>>

uploadVars == <<upc, os_sep, tree, present, data_row_id, confirm, folder, uploads, shown>>

\* what the generator script leaves alone
outsideGen == <<config, replayVars, vizVars, uploadVars>>

vars == <<genVars, replayVars, vizVars, uploadVars>>

--------------------------------------------------------------------------
(* Bounds of the model *)

\* number of distinct values a single draw of a random stream can take
DrawRange == 1024
\* minutes the wall clock may advance while the script runs
MaxDrift == 1
\* values of the process's entropy, which seeds the str hash and Faker's
\* generator
MaxEntropy == 1

--------------------------------------------------------------------------
(* Arithmetic helpers *)

Min(a, b) == IF a < b THEN a ELSE b
Max(a, b) == IF a > b THEN a ELSE b

\* Python int(x) for x = n/d, d > 0: truncation toward zero
IntTrunc(n, d) == IF n >= 0 THEN n \div d ELSE -((-n) \div d)

\* round(n/d) to the nearest integer, ties to even (Python round, numpy rint)
RoundHalfEven(n, d) ==
    LET q == n \div d
        r == n % d
    IN  IF 2 * r < d THEN q
        ELSE IF 2 * r > d THEN q + 1
        ELSE IF q % 2 = 0 THEN q ELSE q + 1

\* a Python list as an explicit sequence
ListOf(f) == SubSeq(f, 1, Len(f))

\* s[lo] + ... + s[hi]
RECURSIVE SumRange(_, _, _)
SumRange(s, lo, hi) ==
    IF lo > hi THEN 0
    ELSE IF lo = hi THEN s[lo]
    ELSE LET mid == (lo + hi) \div 2
         IN  SumRange(s, lo, mid) + SumRange(s, mid + 1, hi)

SumSeq(s) == SumRange(s, 1, Len(s))

--------------------------------------------------------------------------
(* Text as sequences of character codes *)

Digit(d) == 48 + d

RECURSIVE Digits(_)
Digits(n) == IF n < 10 THEN <<Digit(n)>> ELSE Digits(n \div 10) \o <<Digit(n % 10)>>

\* format spec 0<w>d: at least w digits, padded with zeros on the left
ZeroPad(n, w) ==
    LET ds == Digits(n)
    IN  IF Len(ds) >= w THEN ds ELSE [i \in 1..(w - Len(ds)) |-> Digit(0)] \o ds

RECURSIVE ParseInt(_)
ParseInt(s) ==
    IF s = <<>> THEN 0 ELSE 10 * ParseInt(SubSeq(s, 1, Len(s) - 1)) + (s[Len(s)] - 48)

\* Python str comparison a < b, from position k on
RECURSIVE StrLessFrom(_, _, _)
StrLessFrom(a, b, k) ==
    IF k > Len(a) THEN k <= Len(b)
    ELSE IF k > Len(b) THEN FALSE
    ELSE IF a[k] # b[k] THEN a[k] < b[k]
    ELSE StrLessFrom(a, b, k + 1)

StrLess(a, b) == StrLessFrom(a, b, 1)

--------------------------------------------------------------------------
(* datetime: proleptic Gregorian calendar on day numbers (days since epoch) *)

MinutesPerDay == 1440

DayOf(t) == t \div MinutesPerDay
HourOf(t) == (t % MinutesPerDay) \div 60
MinuteOf(t) == t % 60

CivilFromDays(z) ==
    LET z1 == z + 719468
        era == z1 \div 146097
        doe == z1 % 146097
        yoe == (doe - doe \div 1460 + doe \div 36524 - doe \div 146096) \div 365
        doy == doe - (365 * yoe + yoe \div 4 - yoe \div 100)
        mp == (5 * doy + 2) \div 153
        d == doy - (153 * mp + 2) \div 5 + 1
        m == IF mp < 10 THEN mp + 3 ELSE mp - 9
        y == yoe + era * 400 + (IF m <= 2 THEN 1 ELSE 0)
    IN  [year |-> y, month |-> m, day |-> d]

DaysFromCivil(y, m, d) ==
    LET y1 == IF m <= 2 THEN y - 1 ELSE y
        era == y1 \div 400
        yoe == y1 - era * 400
        mp == IF m > 2 THEN m - 3 ELSE m + 9
        doy == (153 * mp + 2) \div 5 + d - 1
        doe == yoe * 365 + yoe \div 4 - yoe \div 100 + doy
    IN  era * 146097 + doe - 719468

\* date.weekday(): Monday is 0
Weekday(t) == (DayOf(t) + 3) % 7

\* strftime('%Y-%m-%d')
FormatDate(t) ==
    LET c == CivilFromDays(DayOf(t))
    IN  ZeroPad(c.year, 4) \o <<45>> \o ZeroPad(c.month, 2) \o <<45>> \o ZeroPad(c.day, 2)

\* datetime.strptime(s, '%Y-%m-%d'): midnight of the day written in s
ParseDate(s) ==
    DaysFromCivil(ParseInt(SubSeq(s, 1, 4)), ParseInt(SubSeq(s, 6, 7)),
                  ParseInt(SubSeq(s, 9, 10))) * MinutesPerDay

\* strftime('%Y-%m-%d %H:%M:%S') at the clock's resolution of one minute
FormatTimestamp(t) ==
    FormatDate(t) \o <<32>> \o ZeroPad(HourOf(t), 2) \o <<58>>
        \o ZeroPad(MinuteOf(t), 2) \o <<58>> \o ZeroPad(0, 2)

\* strftime('%A')
Monday == <<77, 111, 110, 100, 97, 121>>
Tuesday == <<84, 117, 101, 115, 100, 97, 121>>
Wednesday == <<87, 101, 100, 110, 101, 115, 100, 97, 121>>
Thursday == <<84, 104, 117, 114, 115, 100, 97, 121>>
Friday == <<70, 114, 105, 100, 97, 121>>
Saturday == <<83, 97, 116, 117, 114, 100, 97, 121>>
Sunday == <<83, 117, 110, 100, 97, 121>>

DayName(t) ==
    <<Monday, Tuesday, Wednesday, Thursday, Friday, Saturday, Sunday>>[Weekday(t) + 1]

--------------------------------------------------------------------------
(* Random streams.  A seeded stream is a fixed sequence of draws, each in  *)
(* 0..DrawRange-1.  The sequence a library generator produces for a seed   *)
(* is not computed here: it is one of StreamKinds, the same for the whole  *)
(* run.  "mixed" spreads the draws over the range by a 16-bit mixing       *)
(* function; "edge" keeps every draw at one or the other end of the range. *)

StreamKinds == {"mixed", "edge"}

Mix(x) ==
    LET a == ((x % 65536) * 25173 + 13849) % 65536
        b == (a \div 256) + (a % 256) * 256
        c == (((b % 32768) * (b % 32768)) \div 128 + a * 7) % 65536
        d == (c \div 16) + (c % 16) * 4096
    IN  (d * 20077 + 12345) % 65536

Draw(seed, k) == (Mix(Mix(seed * 251 + k) + k) \div 16) % DrawRange

KindDraw(kind, seed, k) ==
    LET u == Draw(seed, k)
    IN  CASE kind = "mixed" -> u
          [] kind = "edge" -> IF (u \div 8) % 2 = 0 THEN u % 8 ELSE DrawRange - 1 - (u % 8)

\* np.random.seed(42) / random.seed(42)
NpSeed == 42
PySeed == 42

\* the k-th draw (0-based) of each global stream
NpDraw(k) == KindDraw(stream, 2 * NpSeed, k)
PyDraw(k) == KindDraw(stream, 2 * PySeed + 1, k)

\* uniform(lo, hi) and randint(lo, hi) (hi exclusive) from a draw u
Uniform(lo, hi, u) == lo + ((hi - lo) * u) \div DrawRange

\* a standard normal deviate in hundredths: bell-shaped (the cube of a
\* centred draw) and cut off at +-4 sigma
StdNormal(u) ==
    LET v == 2 * u - DrawRange + 1
    IN  IntTrunc(((v * v) \div DrawRange) * v * 400, DrawRange * DrawRange)

\* itertools.accumulate(weights)
CumSum(w) == ListOf([j \in 1..Len(w) |-> SumRange(w, 1, j)])

\* bisect.bisect_right(cum, x, lo, hi) on 0-based positions, for the draw
\* u / DrawRange scaled by the total weight: x < cum[mid] is compared exactly
RECURSIVE BisectRight(_, _, _, _)
BisectRight(cum, u, lo, hi) ==
    IF lo >= hi THEN lo
    ELSE LET mid == (lo + hi) \div 2
         IN  IF u * cum[Len(cum)] < cum[mid + 1] * DrawRange
             THEN BisectRight(cum, u, lo, mid)
             ELSE BisectRight(cum, u, mid + 1, hi)

\* bisect(cum_weights, random() * total, 0, n - 1), as a 1-based position
Bisect(cum, u) == 1 + BisectRight(cum, u, 0, Len(cum) - 1)

\* random.choices(pop, cum_weights=cum, k=1)[0]
ChoiceCum(pop, cum, u) == pop[Bisect(cum, u)]

\* random.choices(pop, weights, k=1)[0] and np.random.choice(pop, p=weights)
WeightedChoice(pop, w, u) == ChoiceCum(pop, CumSum(w), u)

\* random.choice(pop)
UniformChoice(pop, u) == pop[1 + (Len(pop) * u) \div DrawRange]

--------------------------------------------------------------------------
(* data_gen.py: configuration *)

num_devices == 75

CityNames == <<"New York", "Los Angeles", "Chicago", "Houston", "Phoenix">>

\* coords in 1/10000 degree, weight in hundredths
cities ==
    [c \in {CityNames[k] : k \in 1..5} |->
        CASE c = "New York" ->
               [coords |-> <<407128, -740060>>, weight |-> 35,
                zones |-> <<"Manhattan", "Brooklyn", "Queens", "Bronx", "Staten Island">>]
          [] c = "Los Angeles" ->
               [coords |-> <<340522, -1182437>>, weight |-> 25,
                zones |-> <<"Downtown", "Westside", "San Fernando", "San Gabriel", "Harbor">>]
          [] c = "Chicago" ->
               [coords |-> <<418781, -876298>>, weight |-> 15,
                zones |-> <<"North", "South", "West", "East", "Central">>]
          [] c = "Houston" ->
               [coords |-> <<297604, -953698>>, weight |-> 15,
                zones |-> <<"Northside", "Southside", "East End", "Westside", "Downtown">>]
          [] c = "Phoenix" ->
               [coords |-> <<334484, -1120740>>, weight |-> 10,
                zones |-> <<"North Valley", "South Mountain", "East Valley", "West Valley",
                            "Downtown">>]]

Statuses == <<"Moving", "Idling", "On-route", "Inactive">>

\* the weight vectors as the script has them, in hundredths: the weights of
\* the cities, status_probs of each of the four branches of the if on the
\* hour of day, and the weights of event_types
GoodConfig ==
    [city_weights |-> [k \in 1..Len(CityNames) |-> cities[CityNames[k]].weight],
     status_probs |-> << <<60, 15, 20, 5>>, <<50, 25, 20, 5>>, <<65, 10, 20, 5>>,
                         <<20, 10, 10, 60>> >>,
     event_types |-> <<40, 40, 10, 5, 5>>]

\* status_probs by hour of day, in hundredths
StatusProbs(hour) ==
    IF hour >= 6 /\ hour < 10 THEN config.status_probs[1]
    ELSE IF hour >= 10 /\ hour < 16 THEN config.status_probs[2]
    ELSE IF hour >= 16 /\ hour < 20 THEN config.status_probs[3]
    ELSE config.status_probs[4]

\* random.choices raises ValueError('Total of weights must be greater than
\* zero') for these weights
ChoicesRaises(w) == SumSeq(w) <= 0

\* np.random.choice raises ValueError for these probabilities: one is
\* negative, or they do not sum to 1
ChoiceRaises(p) == (\E k \in 1..Len(p) : p[k] < 0) \/ SumSeq(p) # 100

\* mutant: the id is padded to two digits
DeviceIdShort(i) == <<68>> \o ZeroPad(i, 2)

\* f'D{i:03d}'
DeviceId(i) == <<68>> \o ZeroPad(i, 3)

--------------------------------------------------------------------------
(* datetime.now(): a loop reads the wall clock once in every pass, and the
   clock may advance between two passes *)

\* the clock of a loop that starts at t and sees the next minute after
\* `split` of its passes
Clock(t, split) == [t |-> t, split |-> split]

\* datetime.now() in pass i (1-based)
ReadClock(clk, i) == IF i <= clk.split THEN clk.t ELSE clk.t + 1

\* the clock after a loop of n passes
ClockAfter(clk, n) == IF clk.split < n THEN clk.t + 1 ELSE clk.t

\* where the clock may advance during a loop of n passes: half-way, or not
\* at all
ClockSplits(n) == {n \div 2, n}

--------------------------------------------------------------------------
(* data_gen.py: device master data *)

\* city_choices = random.choices(cities, weights, k=num_devices), draws p0..
CityChoice(i, p0) ==
    WeightedChoice(CityNames, config.city_weights, PyDraw(p0 + i - 1))

\* one pass of the loop body for device i (1-based); n0 and p0 are the stream
\* positions at the start of the loop, t the clock
Device(i, t, n0, p0) ==
    LET city == CityChoice(i, p0 - num_devices)
        city_data == cities[city]
        n == n0 + 4 * (i - 1)
        lat == city_data.coords[1] + 10 * StdNormal(NpDraw(n))
        lon == city_data.coords[2] + 10 * StdNormal(NpDraw(n + 1))
        status == WeightedChoice(Statuses, StatusProbs(HourOf(t)), NpDraw(n + 2))
        zone == UniformChoice(city_data.zones, PyDraw(p0 + i - 1))
        age == Uniform(0, 180, NpDraw(n + 3))
    IN  [device_id |-> DeviceId(i),
         city |-> city,
         lat |-> lat,
         lon |-> lon,
         status |-> status,
         zone |-> zone,
         last_maintenance |-> FormatDate(t - age * MinutesPerDay)]

BuildDevices(clk, n0, p0) ==
    [i \in 1..num_devices |-> Device(i, ReadClock(clk, i), n0, p0 + num_devices)]

\* os.makedirs('data', exist_ok=True), then the roster.  random.choices
\* (line 55) and np.random.choice (line 81, in every pass) raise on weights
\* they do not accept, which ends the process
GenDevices ==
    /\ pc = "devices"
    /\ data_dir' = IF data_dir = "absent" THEN "created" ELSE data_dir
    /\ IF ChoicesRaises(config.city_weights)
       THEN /\ pc' = "failed"
            /\ UNCHANGED <<now, drift, npPos, pyPos, written, devices>>
       ELSE \E split \in ClockSplits(num_devices) :
              LET clk == Clock(now, split)
                  raising == {i \in 1..num_devices :
                                 ChoiceRaises(StatusProbs(HourOf(ReadClock(clk, i))))}
              IN  /\ ClockAfter(clk, num_devices) - now <= MaxDrift - drift
                  /\ IF raising # {}
                     THEN /\ pc' = "failed"
                          /\ now' = ReadClock(clk, CHOOSE i \in raising :
                                                       \A j \in raising : i <= j)
                          /\ drift' = drift + (now' - now)
                          /\ UNCHANGED <<npPos, pyPos, written, devices>>
                     ELSE /\ devices' = BuildDevices(clk, npPos, pyPos)
                          /\ now' = ClockAfter(clk, num_devices)
                          /\ drift' = drift + (now' - now)
                          /\ npPos' = npPos + 4 * num_devices
                          /\ pyPos' = pyPos + 2 * num_devices
                          /\ written' = written \cup {"device_master.csv"}
                          /\ pc' = "performance"
    /\ UNCHANGED <<stream, entropy, performance, loads, heatmap_data, heat_df, flows, events,
                   events_df, summary>>
    /\ UNCHANGED outsideGen

--------------------------------------------------------------------------
(* data_gen.py: performance data *)

\* city_factor and status_factor, in tenths
CityFactor(city) ==
    CASE city = "New York" -> 12 [] city = "Los Angeles" -> 11 [] city = "Chicago" -> 10
      [] city = "Houston" -> 9 [] city = "Phoenix" -> 8

StatusFactor(status) ==
    CASE status = "Moving" -> 11 [] status = "On-route" -> 10 [] status = "Idling" -> 7
      [] status = "Inactive" -> 1

Clamp(lo, hi, x) == Max(lo, Min(hi, x))

\* int(base_deliveries * city_factor * status_factor * uniform(0.8, 1.2)),
\* the uniform factor in thousandths
TotalDeliveries(device, uBase, uNoise) ==
    IntTrunc(Uniform(5, 50, uBase) * CityFactor(device.city) * StatusFactor(device.status)
                 * Uniform(800, 1200, uNoise),
             100000)

\* max(10, min(65, normal(35, 10))), in hundredths
AvgSpeed(u) == Clamp(1000, 6500, 3500 + 10 * StdNormal(u))

\* (now - strptime(last_maintenance)).days
MaintenanceDays(device, t) == (t - ParseDate(device.last_maintenance)) \div MinutesPerDay

\* mutant: the uptime is not clamped
UptimeUnclamped(maintenance_days, u) == 9500 - 10 * maintenance_days + 3 * StdNormal(u)

\* max(70, min(99, 95 - maintenance_days / 10 + normal(0, 3))), in hundredths
Uptime(maintenance_days, u) ==
    Clamp(7000, 9900, 9500 - 10 * maintenance_days + 3 * StdNormal(u))

\* one pass of the loop body for the device at roster position j; n0 is the
\* stream position at the start of the loop.  avg_speed, uptime_percent and
\* fuel_efficiency are in tenths after round(_, 1)
PerformanceRow(j, t, n0) ==
    LET device == devices[j]
        n == n0 + 6 * (j - 1)
        total_deliveries == TotalDeliveries(device, NpDraw(n), NpDraw(n + 1))
        avg_speed == AvgSpeed(NpDraw(n + 2))
        uptime == Uptime(MaintenanceDays(device, t), NpDraw(n + 3))
    IN  [device_id |-> device.device_id,
         total_deliveries |-> total_deliveries,
         avg_speed |-> RoundHalfEven(avg_speed, 10),
         uptime_percent |-> RoundHalfEven(uptime, 10),
         fuel_efficiency |-> RoundHalfEven(8500 + 15 * StdNormal(NpDraw(n + 4)), 100),
         distance_traveled |->
             RoundHalfEven(total_deliveries * Uniform(500, 1500, NpDraw(n + 5)), 100)]

\* mutant: rows are built for the active devices only
BuildPerformanceActiveOnly(clk, n0) ==
    LET active == {j \in 1..Len(devices) : devices[j].status # "Inactive"}
    IN  [j \in 1..Cardinality(active) |->
            LET a == CHOOSE a \in active : Cardinality({b \in active : b < a}) = j - 1
            IN  PerformanceRow(a, ReadClock(clk, j), n0)]

BuildPerformance(clk, n0) ==
    [j \in 1..Len(devices) |-> PerformanceRow(j, ReadClock(clk, j), n0)]

GenPerformance ==
    /\ pc = "performance"
    /\ \E split \in ClockSplits(Len(devices)) :
         LET clk == Clock(now, split)
         IN  /\ ClockAfter(clk, Len(devices)) - now <= MaxDrift - drift
             /\ performance' = BuildPerformance(clk, npPos)
             /\ now' = ClockAfter(clk, Len(devices))
             /\ drift' = drift + (now' - now)
    /\ npPos' = npPos + 6 * Len(devices)
    /\ written' = written \cup {"performance.csv"}
    /\ pc' = "loads"
    /\ UNCHANGED <<stream, entropy, pyPos, devices, loads, heatmap_data, heat_df, flows, events,
                   events_df, summary>>
    /\ UNCHANGED <<data_dir, outsideGen>>

--------------------------------------------------------------------------
(* data_gen.py: loads by day *)

NumDays == 28

\* weekday_pattern, in tenths
weekday_pattern == <<10, 11, 12, 11, 10, 7, 5>>

\* base_load = 100 + (i * 0.5), in tenths
BaseLoad(i) == 1000 + 5 * i

\* the special-event multiplier, in tenths
HolidayFactor(date) ==
    LET c == CivilFromDays(DayOf(date))
    IN  IF c.month = 12 /\ c.day \in {24, 25, 31} THEN 15
        ELSE IF c.month = 7 /\ c.day = 4 THEN 7
        ELSE 10

\* 'current' if i < 7 else ('last' if i < 14 else 'older')
WeekBucket(i) == IF i < 7 THEN "current" ELSE IF i < 14 THEN "last" ELSE "older"

\* one pass of the loop body for day offset i (0-based) and its date
LoadRow(i, date, u) ==
    LET day_of_week == Weekday(date)
        daily_load == BaseLoad(i) * weekday_pattern[day_of_week + 1]
                          * Uniform(900, 1100, u) * HolidayFactor(date)
    IN  [date |-> date,
         loads |-> IntTrunc(daily_load, 1000000),
         week |-> WeekBucket(i),
         day_of_week |-> DayName(date),
         is_weekend |-> day_of_week >= 5]

\* dates = [datetime.now() - timedelta(days=i) for i in range(28)]
Dates(clk) == [k \in 1..NumDays |-> ReadClock(clk, k) - (k - 1) * MinutesPerDay]

BuildLoads(clk, n0) ==
    LET dates == Dates(clk)
    IN  [k \in 1..Len(dates) |-> LoadRow(k - 1, dates[k], NpDraw(n0 + k - 1))]

GenLoads ==
    /\ pc = "loads"
    /\ \E split \in ClockSplits(NumDays) :
         LET clk == Clock(now, split)
         IN  /\ ClockAfter(clk, NumDays) - now <= MaxDrift - drift
             /\ loads' = BuildLoads(clk, npPos)
             /\ now' = ClockAfter(clk, NumDays)
             /\ drift' = drift + (now' - now)
    /\ npPos' = npPos + NumDays
    /\ written' = written \cup {"loads_by_day.csv"}
    /\ pc' = "heatmap"
    /\ UNCHANGED <<stream, entropy, pyPos, devices, performance, heatmap_data, heat_df, flows,
                   events, events_df, summary>>
    /\ UNCHANGED <<data_dir, outsideGen>>

--------------------------------------------------------------------------
(* data_gen.py: idle heatmap *)

HeatmapDevices == 50

days == <<Monday, Tuesday, Wednesday, Thursday, Friday, Saturday, Sunday>>

BaseIdle(city) ==
    CASE city = "New York" -> 45 [] city = "Los Angeles" -> 60 [] city = "Chicago" -> 50
      [] city = "Houston" -> 55 [] city = "Phoenix" -> 65

\* day_factor, in tenths
DayFactor(day) ==
    CASE day = Monday -> 11 [] day = Tuesday -> 10 [] day = Wednesday -> 9
      [] day = Thursday -> 10 [] day = Friday -> 12 [] day = Saturday -> 13
      [] day = Sunday -> 15

\* mutant: the result is not clamped
IdleMinUnclamped(base_idle, day, uFactor, uNoise) ==
    LET factor == IF day \in {Saturday, Sunday} THEN Uniform(1200, 1500, uFactor)
                  ELSE Uniform(900, 1100, uFactor)
    IN  base_idle * factor * DayFactor(day) + 1000 * StdNormal(uNoise)

\* idle minutes of one cell before int(), in 1/10000 minute: the base times the
\* weekend or weekday factor (thousandths) times day_factor, plus normal(0, 10),
\* clamped to 0..180
IdleMin(base_idle, day, uFactor, uNoise) ==
    LET factor == IF day \in {Saturday, Sunday} THEN Uniform(1200, 1500, uFactor)
                  ELSE Uniform(900, 1100, uFactor)
    IN  Clamp(0, 1800000, base_idle * factor * DayFactor(day) + 1000 * StdNormal(uNoise))

\* the long-format rows of the device at roster position j
HeatmapRows(j, n0) ==
    LET device == devices[j]
        n == n0 + (1 + 2 * Len(days)) * (j - 1)
        base_idle == BaseIdle(device.city) + Uniform(-15, 15, NpDraw(n))
    IN  [d \in 1..Len(days) |->
            [device_id |-> device.device_id,
             day |-> days[d],
             idle_minutes |->
                 IntTrunc(IdleMin(base_idle, days[d], NpDraw(n + 2 * d - 1), NpDraw(n + 2 * d)),
                          10000)]]

\* devices[:50]
HeatmapSubset == Min(HeatmapDevices, Len(devices))

\* heatmap_data, in append order
BuildHeatmapData(n0) ==
    ListOf([k \in 1..(HeatmapSubset * Len(days)) |->
        HeatmapRows(1 + ((k - 1) \div Len(days)), n0)[1 + ((k - 1) % Len(days))]])

\* the elements of a set of strings as an ascending sequence
RECURSIVE SortStrings(_)
SortStrings(S) ==
    IF S = {} THEN <<>>
    ELSE LET m == CHOOSE x \in S : \A y \in S : ~StrLess(y, x)
         IN  <<m>> \o SortStrings(S \ {m})

\* DataFrame.pivot(index, columns, values): the labels of both axes are the
\* distinct values, sorted; a cell is <<value>>, or NaN where no row names it
NaN == <<>>

Pivot(long) ==
    LET index == SortStrings({long[k].device_id : k \in 1..Len(long)})
        columns == SortStrings({long[k].day : k \in 1..Len(long)})
    IN  [index |-> index,
         columns |-> columns,
         cell |-> [r \in 1..Len(index) |->
                     LET row == {k \in 1..Len(long) : long[k].device_id = index[r]}
                     IN  [c \in 1..Len(columns) |->
                            LET at == {k \in row : long[k].day = columns[c]}
                            IN  IF at = {} THEN NaN
                                ELSE <<long[CHOOSE k \in at : TRUE].idle_minutes>>]]]

GenHeatmap ==
    /\ pc = "heatmap"
    /\ heatmap_data' = BuildHeatmapData(npPos)
    /\ heat_df' = Pivot(heatmap_data')
    /\ npPos' = npPos + HeatmapSubset * (1 + 2 * Len(days))
    /\ written' = written \cup {"idle_heatmap.csv"}
    /\ pc' = "flows"
    /\ UNCHANGED <<stream, entropy, now, drift, pyPos, devices, performance, loads, flows, events,
                   events_df, summary>>
    /\ UNCHANGED <<data_dir, outsideGen>>

--------------------------------------------------------------------------
(* data_gen.py: sankey flows *)

\* the hash of a zone name under the interpreter's per-process hash seed h;
\* the name enters by its position among all the configured zone names
AllZones ==
    cities["New York"].zones \o cities["Los Angeles"].zones \o cities["Chicago"].zones
        \o cities["Houston"].zones \o cities["Phoenix"].zones

ZoneCode(z) == CHOOSE k \in 1..Len(AllZones) : AllZones[k] = z /\ \A j \in 1..(k - 1) : AllZones[j] # z

StrHash(h, z) == Draw(1000 + h, ZoneCode(z))

\* list(set(xs)): the distinct elements in the iteration order of the set,
\* which follows the hashes of the elements
RECURSIVE ListOfSet(_, _)
ListOfSet(S, h) ==
    IF S = {} THEN <<>>
    ELSE LET key(z) == StrHash(h, z) * 64 + ZoneCode(z)
             m == CHOOSE x \in S : \A y \in S : key(x) <= key(y)
         IN  <<m>> \o ListOfSet(S \ {m}, h)

\* mutant: the duplicates are not removed
ZonesWithDuplicates(h) == [k \in 1..Len(devices) |-> devices[k].zone]

Zones(h) == ListOfSet({devices[k].zone : k \in 1..Len(devices)}, h)

\* status_weights, in hundredths, in the order of the dict
StatusNames == <<"Moving", "Idling", "On-route", "Inactive">>
status_weights == <<60, 25, 10, 5>>

\* warehouse to zone flows
DispatchFlows(zones, n0) ==
    [k \in 1..Len(zones) |->
        [src |-> "Warehouse", trg |-> zones[k],
         count |-> Uniform(50, 200, NpDraw(n0 + k - 1)), type |-> "dispatch"]]

\* zone to status flows: int(total * weight * uniform(0.8, 1.2))
StatusFlows(zones, n0) ==
    [k \in 1..(Len(zones) * Len(StatusNames)) |->
        LET z == 1 + ((k - 1) \div Len(StatusNames))
            st == 1 + ((k - 1) % Len(StatusNames))
            n == n0 + (1 + Len(StatusNames)) * (z - 1)
            total == Uniform(30, 150, NpDraw(n))
        IN  [src |-> zones[z], trg |-> StatusNames[st],
             count |-> IntTrunc(total * status_weights[st] * Uniform(800, 1200, NpDraw(n + st)),
                                100000),
             type |-> "status"]]

BuildFlows(zones, n0) ==
    ListOf(DispatchFlows(zones, n0)) \o ListOf(StatusFlows(zones, n0 + Len(zones)))

GenFlows ==
    /\ pc = "flows"
    /\ \E h \in 0..MaxEntropy :
         LET zones == Zones(h)
         IN  /\ entropy' = h
             /\ flows' = BuildFlows(zones, npPos)
             /\ npPos' = npPos + Len(zones) * (2 + Len(StatusNames))
    /\ written' = written \cup {"sankey_flows.csv"}
    /\ pc' = "events"
    /\ UNCHANGED <<stream, now, drift, pyPos, devices, performance, loads,
                   heatmap_data, heat_df, events, events_df, summary>>
    /\ UNCHANGED <<data_dir, outsideGen>>

--------------------------------------------------------------------------
(* data_gen.py: warehouse events *)

NumEvents == 250

\* event_types and their weights, in hundredths
EventTypeNames == <<"Departure", "Arrival", "Maintenance", "Inspection", "Alert">>
event_types == config.event_types

\* the cumulative weights random.choices accumulates from them
EventTypeCum == CumSum(event_types)

\* Faker's generator is never seeded: its stream is fixed by process entropy f
FakeDraw(f, k) == Draw(2000 + f, k)

\* size of Faker's word list
LoremWords == 6

\* fake.sentence(): 3 to 8 words and the closing full stop (code 46); a word is
\* its position in the word list.  Uses 1 + the number of words draws from k on
SentenceLen(f, k) == IntTrunc(6 * Uniform(60, 141, FakeDraw(f, k)), 100)

Sentence(f, k) ==
    [j \in 1..SentenceLen(f, k) |-> 100 + (LoremWords * FakeDraw(f, k + j)) \div DrawRange]
        \o <<46>>

\* [d['status'] != 'Inactive' and 2 or 1 for d in devices]
ActivityWeights == ListOf([k \in 1..Len(devices) |-> IF devices[k].status # "Inactive" THEN 2 ELSE 1])

\* mutant: alerts are left without text
DetailsNoAlert(event_type, f, k) ==
    IF event_type \in {"Maintenance", "Inspection"} THEN Sentence(f, k) ELSE <<>>

\* the details of an event: text for the three notable types, else ''
Details(event_type, f, k) ==
    IF event_type \in {"Maintenance", "Inspection", "Alert"} THEN Sentence(f, k) ELSE <<>>

\* one pass of the loop body for event i (0-based); k is the position in
\* Faker's stream, cum the cumulative activity weights
Event(i, t, n0, p0, f, k, cum) ==
    LET hours_ago == Uniform(0, 168 * 60, NpDraw(n0 + i))
        event_type == ChoiceCum(EventTypeNames, EventTypeCum, PyDraw(p0 + 2 * i))
        device == ChoiceCum(devices, cum, PyDraw(p0 + 2 * i + 1))
    IN  [timestamp |-> FormatTimestamp(t - hours_ago),
         event_type |-> event_type,
         device_id |-> device.device_id,
         location |-> device.zone,
         details |-> Details(event_type, f, k)]

\* the passes lo..hi of the loop, in order: the events appended and the
\* position reached in Faker's stream
RECURSIVE EventLoop(_, _, _, _, _, _, _, _)
EventLoop(lo, hi, clk, n0, p0, f, k, cum) ==
    IF lo = hi
    THEN LET e == Event(lo, ReadClock(clk, lo + 1), n0, p0, f, k, cum)
         IN  [list |-> <<e>>, k |-> k + Len(e.details)]
    ELSE LET mid == (lo + hi) \div 2
             first == EventLoop(lo, mid, clk, n0, p0, f, k, cum)
             rest == EventLoop(mid + 1, hi, clk, n0, p0, f, first.k, cum)
         IN  [list |-> first.list \o rest.list, k |-> rest.k]

BuildEvents(clk, n0, p0, f) ==
    EventLoop(0, NumEvents - 1, clk, n0, p0, f, 0, CumSum(ActivityWeights)).list

\* the number of leading rows of b (sorted descending) whose timestamp is
\* above ts
RECURSIVE CountAbove(_, _, _, _)
CountAbove(b, lo, hi, ts) ==
    IF lo > hi THEN lo - 1
    ELSE LET mid == (lo + hi) \div 2
         IN  IF StrLess(ts, b[mid].timestamp) THEN CountAbove(b, mid + 1, hi, ts)
             ELSE CountAbove(b, lo, mid - 1, ts)

\* merge of two descending runs, rows of a before rows of b of equal timestamp
RECURSIVE MergeDesc(_, _)
MergeDesc(a, b) ==
    IF a = <<>> THEN b
    ELSE IF b = <<>> THEN a
    ELSE LET m == (Len(a) + 1) \div 2
             p == CountAbove(b, 1, Len(b), a[m].timestamp)
         IN  MergeDesc(SubSeq(a, 1, m - 1), SubSeq(b, 1, p)) \o <<a[m]>>
                 \o MergeDesc(SubSeq(a, m + 1, Len(a)), SubSeq(b, p + 1, Len(b)))

\* mutant: the sorted frame is dropped and the list kept as appended
SortDropped(s) == s

\* sort_values('timestamp', ascending=False)
RECURSIVE SortDesc(_)
SortDesc(s) ==
    IF Len(s) <= 1 THEN s
    ELSE LET h == Len(s) \div 2
         IN  MergeDesc(SortDesc(SubSeq(s, 1, h)), SortDesc(SubSeq(s, h + 1, Len(s))))

\* random.choices (line 279, in the first pass) raises on weights it does
\* not accept, which ends the process
GenEvents ==
    /\ pc = "events"
    /\ IF ChoicesRaises(config.event_types)
       THEN /\ pc' = "failed"
            /\ UNCHANGED <<now, drift, npPos, pyPos, written, events, events_df>>
       ELSE /\ \E f \in {entropy}, split \in ClockSplits(NumEvents) :
                 LET clk == Clock(now, split)
                 IN  /\ ClockAfter(clk, NumEvents) - now <= MaxDrift - drift
                     /\ events' = BuildEvents(clk, npPos, pyPos, f)
                     /\ now' = ClockAfter(clk, NumEvents)
                     /\ drift' = drift + (now' - now)
            /\ events_df' = SortDesc(events')
            /\ npPos' = npPos + NumEvents
            /\ pyPos' = pyPos + 2 * NumEvents
            /\ written' = written \cup {"warehouse_events.csv"}
            /\ pc' = "summary"
    /\ UNCHANGED <<stream, entropy, devices, performance, loads, heatmap_data, heat_df, flows, summary>>
    /\ UNCHANGED <<data_dir, outsideGen>>

--------------------------------------------------------------------------
(* data_gen.py: summary metrics *)

active_statuses == {"Moving", "On-route", "Idling"}

\* perf_df[column].sum()
ColumnSum(table, column) == SumSeq([k \in 1..Len(table) |-> table[k][column]])

\* mutant: heat_df.sum() of the first column only
HeatSumFirstColumn(frame) ==
    SumSeq([r \in 1..Len(frame.index) |->
              IF frame.cell[r][1] = NaN THEN 0 ELSE frame.cell[r][1][1]])

\* heat_df.sum().sum(): NaN cells are skipped
HeatSum(frame) ==
    SumSeq([r \in 1..Len(frame.index) |->
              SumSeq([c \in 1..Len(frame.columns) |->
                        IF frame.cell[r][c] = NaN THEN 0 ELSE frame.cell[r][c][1]])])

\* total_idling_hr, avg_deliveries, avg_speed and avg_uptime are in tenths
BuildSummary(t) ==
    [active_devices |-> Cardinality({k \in 1..Len(devices) : devices[k].status \in active_statuses}),
     idling_devices |-> Cardinality({k \in 1..Len(devices) : devices[k].status = "Idling"}),
     completed_loads |-> ColumnSum(performance, "total_deliveries"),
     total_idling_hr |-> RoundHalfEven(10 * HeatSum(heat_df), 60),
     avg_deliveries |-> RoundHalfEven(10 * ColumnSum(performance, "total_deliveries"),
                                      Len(performance)),
     avg_speed |-> RoundHalfEven(ColumnSum(performance, "avg_speed"), Len(performance)),
     avg_uptime |-> RoundHalfEven(ColumnSum(performance, "uptime_percent"), Len(performance)),
     critical_alerts |-> Cardinality({k \in 1..Len(events) : events[k].event_type = "Alert"}),
     last_updated |-> FormatTimestamp(t)]

GenSummary ==
    /\ pc = "summary"
    /\ summary' = BuildSummary(now)
    /\ written' = written \cup {"summary_metrics.csv"}
    /\ pc' = "done"
    /\ UNCHANGED <<stream, entropy, now, drift, npPos, pyPos, devices, performance, loads, heatmap_data, heat_df,
                   flows, events, events_df>>
    /\ UNCHANGED <<data_dir, outsideGen>>

--------------------------------------------------------------------------
(* the wall clock advances between two stages of the script *)

\* the stages that call datetime.now(); an advance before any other stage is
\* first seen by the next of these
ReadsClock == {"devices", "performance", "loads", "events", "summary"}

Tick ==
    /\ pc \in ReadsClock
    /\ drift < MaxDrift
    /\ now' = now + 1
    /\ drift' = drift + 1
    /\ UNCHANGED <<pc, stream, entropy, npPos, pyPos, written, devices, performance, loads,
                   heatmap_data, heat_df, flows, events, events_df, summary>>
    /\ UNCHANGED <<data_dir, outsideGen>>

--------------------------------------------------------------------------
(* Specification of one generator run *)

Instant(y, m, d, hh, mm) == DaysFromCivil(y, m, d) * MinutesPerDay + hh * 60 + mm

\* a summer holiday just before the 10 o'clock status change, the last minute
\* of a year, and an evening whose 28-day window holds a leap day
StartInstants ==
    { Instant(2025, 7, 4, 9, 59),
      Instant(2025, 12, 31, 23, 59),
      Instant(2024, 3, 5, 17, 30) }

\* the process's entropy is first read when the set of zone names is listed
NotRead == -1

NoFrame == [index |-> <<>>, columns |-> <<>>, cell |-> <<>>]

\* no tables kept
NoTables == <<>>

\* the renderer is another process, not started here
VizOff ==
    /\ vpc = "off"
    /\ files = <<>>
    /\ charts = {}
    /\ printed = {}
    /\ exception = "none"
    /\ html = FALSE
    /\ images = {}

\* the upload utility is another process, not started here
UploadOff ==
    /\ upc = "off"
    /\ os_sep = 47
    /\ tree = {}
    /\ present = {}
    /\ data_row_id = <<>>
    /\ confirm = <<>>
    /\ folder = 1
    /\ uploads = {}
    /\ shown = {}

Init ==
    /\ VizOff
    /\ UploadOff
    /\ pc = "devices"
    /\ stream \in StreamKinds
    /\ entropy = NotRead
    /\ now \in StartInstants
    /\ drift = 0
    /\ npPos = 0
    /\ pyPos = 0
    /\ written = {}
    /\ devices = <<>>
    /\ performance = <<>>
    /\ loads = <<>>
    /\ heatmap_data = <<>>
    /\ heat_df = NoFrame
    /\ flows = <<>>
    /\ events = <<>>
    /\ events_df = <<>>
    /\ summary = <<>>
    /\ config = GoodConfig
    /\ data_dir = "present"
    /\ run = 1
    /\ firstRun = NoTables

Next ==
    \/ GenDevices
    \/ GenPerformance
    \/ GenLoads
    \/ GenHeatmap
    \/ GenFlows
    \/ GenEvents
    \/ GenSummary
    \/ Tick

Spec == Init /\ [][Next]_vars

--------------------------------------------------------------------------
(* Specification of a replay: the generator is run to completion, then run
   again as a new process, the clock held at the same instant in both runs *)

\* the contents of the seven CSV files
Tables ==
    [device_master |-> devices,
     performance |-> performance,
     loads_by_day |-> loads,
     idle_heatmap |-> heat_df,
     sankey_flows |-> flows,
     warehouse_events |-> events_df,
     summary_metrics |-> summary]

\* the script is started again: Faker() at line 14 and the seeds at lines
\* 20-21 are executed anew and the tables are rebuilt from nothing
Rerun ==
    /\ pc = "done"
    /\ run = 1
    /\ run' = 2
    /\ firstRun' = Tables
    /\ pc' = "devices"
    /\ entropy' = NotRead
    /\ npPos' = 0
    /\ pyPos' = 0
    /\ written' = {}
    /\ devices' = <<>>
    /\ performance' = <<>>
    /\ loads' = <<>>
    /\ heatmap_data' = <<>>
    /\ heat_df' = NoFrame
    /\ flows' = <<>>
    /\ events' = <<>>
    /\ events_df' = <<>>
    /\ summary' = <<>>
    /\ UNCHANGED <<stream, now, drift, config, data_dir, vizVars, uploadVars>>

\* a stage of the script under a clock that stands still
FixedClock(stage) == stage /\ now' = now

NextReplay ==
    \/ FixedClock(GenDevices)
    \/ FixedClock(GenPerformance)
    \/ FixedClock(GenLoads)
    \/ FixedClock(GenHeatmap)
    \/ FixedClock(GenFlows)
    \/ FixedClock(GenEvents)
    \/ FixedClock(GenSummary)
    \/ Rerun

SpecReplay == Init /\ [][NextReplay]_vars

--------------------------------------------------------------------------
(* viz.py: the renderer.  It reads the seven files of data/, builds the
   layout with its five charts, writes the HTML page and, run as a script,
   exports the charts and starts the server *)

CsvFiles ==
    {"device_master.csv", "performance.csv", "loads_by_day.csv", "idle_heatmap.csv",
     "sankey_flows.csv", "warehouse_events.csv", "summary_metrics.csv"}

\* the columns data_gen.py writes to each file
Header(file) ==
    CASE file = "device_master.csv" ->
             {"device_id", "city", "lat", "lon", "status", "zone", "last_maintenance"}
      [] file = "performance.csv" ->
             {"device_id", "total_deliveries", "avg_speed", "uptime_percent",
              "fuel_efficiency", "distance_traveled"}
      [] file = "loads_by_day.csv" -> {"date", "loads", "week", "day_of_week", "is_weekend"}
      [] file = "idle_heatmap.csv" ->
             {"device_id", "Monday", "Tuesday", "Wednesday", "Thursday", "Friday",
              "Saturday", "Sunday"}
      [] file = "sankey_flows.csv" -> {"src", "trg", "count", "type"}
      [] file = "warehouse_events.csv" ->
             {"timestamp", "event_type", "device_id", "location", "details"}
      [] file = "summary_metrics.csv" ->
             {"active_devices", "idling_devices", "completed_loads", "total_idling_hr",
              "avg_deliveries", "avg_speed", "avg_uptime", "critical_alerts",
              "last_updated"}

\* the columns viz.py names, per file
Used(file) ==
    CASE file = "device_master.csv" -> {"device_id", "city", "lat", "lon", "status", "zone"}
      [] file = "performance.csv" -> {"device_id", "total_deliveries"}
      [] file = "loads_by_day.csv" -> {"date", "loads", "week"}
      [] file = "idle_heatmap.csv" -> {"device_id"}
      [] file = "sankey_flows.csv" -> {"src", "trg", "count"}
      [] file = "warehouse_events.csv" -> {}
      [] file = "summary_metrics.csv" ->
             {"active_devices", "idling_devices", "completed_loads", "total_idling_hr"}

\* what a file name of data/ can stand for: no file, a file pandas cannot
\* read as CSV, or a table with its columns and its number of rows
NoFile == [kind |-> "missing", columns |-> {}, rows |-> 0]
Unparseable == [kind |-> "unparseable", columns |-> {}, rows |-> 0]
Table(columns, rows) == [kind |-> "table", columns |-> columns, rows |-> rows]

\* the file as data_gen.py writes it
Good(file) == Table(Header(file), 1)

\* the malformed tables tried: one column is not there (a column viz.py
\* names, or any column where it names none), or the one-row summary has
\* no row
Malformed(file) ==
    {Table(Header(file) \ {c}, 1) :
        c \in IF Used(file) = {} THEN Header(file) ELSE Used(file)}
    \cup (IF file = "summary_metrics.csv" THEN {Table(Header(file), 0)} ELSE {})

\* number of files of data/ that are not as data_gen.py writes them
MaxBadFiles == 1

\* pd.read_csv(file): the exception it raises, if any
ReadCsv(file) ==
    CASE files[file].kind = "missing" -> "FileNotFoundError"
      [] files[file].kind = "unparseable" -> "ParserError"
      [] OTHER -> "none"

\* a step that reads named columns of a loaded table: the exception it
\* raises, if any
Columns(file, names, error) ==
    IF names \subseteq files[file].columns THEN "none" ELSE error

\* the first exception of a sequence of steps
RECURSIVE FirstException(_)
FirstException(steps) ==
    IF steps = <<>> THEN "none"
    ELSE IF Head(steps) # "none" THEN Head(steps)
    ELSE FirstException(Tail(steps))

\* lines 19-28, in order
LoadSteps ==
    << ReadCsv("device_master.csv"),
       ReadCsv("performance.csv"),
       ReadCsv("loads_by_day.csv"),
       Columns("loads_by_day.csv", {"date"}, "ValueError"),
       ReadCsv("idle_heatmap.csv"),
       Columns("idle_heatmap.csv", {"device_id"}, "KeyError"),
       ReadCsv("sankey_flows.csv"),
       ReadCsv("warehouse_events.csv"),
       ReadCsv("summary_metrics.csv"),
       IF files["summary_metrics.csv"].rows > 0 THEN "none" ELSE "IndexError",
       Columns("performance.csv", {"device_id", "total_deliveries"}, "KeyError"),
       Columns("device_master.csv", {"device_id"}, "KeyError") >>

\* an exception nobody catches ends the script
Propagate(error) ==
    /\ exception' = error
    /\ vpc' = "aborted"

\* a step of the layout expression (lines 256-360): it raises, or the next
\* step is evaluated
LayoutStep(error, next) ==
    IF error # "none" THEN Propagate(error)
    ELSE vpc' = next /\ UNCHANGED exception

\* try: ... except Exception as e: print(...); raise
LoadData ==
    /\ vpc = "load"
    /\ LET error == FirstException(LoadSteps)
       IN  IF error # "none"
           THEN /\ printed' = printed \cup {"Error loading data"}
                /\ Propagate(error)
           ELSE /\ vpc' = "kpi"
                /\ UNCHANGED <<printed, exception>>
    /\ UNCHANGED <<files, charts, html, images, genVars, replayVars, uploadVars>>

\* the four KPI cards: summary['active_devices'], ..., summary['total_idling_hr']
KpiCards ==
    /\ vpc = "kpi"
    /\ LayoutStep(Columns("summary_metrics.csv",
                          {"active_devices", "idling_devices", "completed_loads",
                           "total_idling_hr"}, "KeyError"),
                  "create_map")
    /\ UNCHANGED <<files, charts, printed, html, images, genVars, replayVars, uploadVars>>

\* the figure of the device map; total_deliveries comes with the merge at
\* line 28
create_map ==
    /\ vpc = "create_map"
    /\ LET error == Columns("device_master.csv", {"device_id", "city", "zone", "status", "lat", "lon"}, "KeyError")
       IN  /\ LayoutStep(error, "create_sankey")
           /\ charts' = IF error = "none" THEN charts \cup {"fleet_map"} ELSE charts
    /\ UNCHANGED <<files, printed, html, images, genVars, replayVars, uploadVars>>

\* the figure of the flows
create_sankey ==
    /\ vpc = "create_sankey"
    /\ LET error == Columns("sankey_flows.csv", {"src", "trg", "count"}, "KeyError")
       IN  /\ LayoutStep(error, "create_heatmap")
           /\ charts' = IF error = "none" THEN charts \cup {"delivery_flows"} ELSE charts
    /\ UNCHANGED <<files, printed, html, images, genVars, replayVars, uploadVars>>

\* the figure of the idle heatmap; the cells are read by position
create_heatmap ==
    /\ vpc = "create_heatmap"
    /\ LET error == Columns("idle_heatmap.csv", {}, "KeyError")
       IN  /\ LayoutStep(error, "create_donut")
           /\ charts' = IF error = "none" THEN charts \cup {"idle_time_heatmap"} ELSE charts
    /\ UNCHANGED <<files, printed, html, images, genVars, replayVars, uploadVars>>

\* the figure of the status counts
create_donut ==
    /\ vpc = "create_donut"
    /\ LET error == Columns("device_master.csv", {"status"}, "KeyError")
       IN  /\ LayoutStep(error, "create_barchart")
           /\ charts' = IF error = "none" THEN charts \cup {"status_distribution"} ELSE charts
    /\ UNCHANGED <<files, printed, html, images, genVars, replayVars, uploadVars>>

\* the figure of the loads by day
create_barchart ==
    /\ vpc = "create_barchart"
    /\ LET error == FirstException(<<Columns("loads_by_day.csv", {"date"}, "KeyError"),
                                     Columns("loads_by_day.csv", {"loads", "week"},
                                             "ValueError")>>)
       IN  /\ LayoutStep(error, "events_table")
           /\ charts' = IF error = "none" THEN charts \cup {"weekly_loads"} ELSE charts
    /\ UNCHANGED <<files, printed, html, images, genVars, replayVars, uploadVars>>

\* events.columns and events.to_dict('records'): whatever the table holds
EventsTable ==
    /\ vpc = "events_table"
    /\ vpc' = "save_html"
    /\ UNCHANGED <<files, charts, printed, exception, html, images, genVars, replayVars, uploadVars>>

\* with open('outputs/delivery_dashboard.html', 'w') as f: f.write(app.index())
SaveHtml ==
    /\ vpc = "save_html"
    /\ html' = TRUE
    /\ vpc' = "main"
    /\ UNCHANGED <<files, charts, printed, exception, images, genVars, replayVars, uploadVars>>

AllCharts ==
    {"fleet_map", "delivery_flows", "idle_time_heatmap", "status_distribution",
     "weekly_loads"}

\* the charts are built once more and written as PNG files; an exception,
\* such as a missing image engine, is printed and dropped
save_plot_images ==
    /\ vpc = "main"
    /\ \E engine \in BOOLEAN :
         IF engine
         THEN /\ images' = AllCharts
              /\ printed' = printed \cup {"Successfully exported all plots as PNG files"}
         ELSE /\ printed' = printed \cup {"Error exporting plots"}
              /\ UNCHANGED images
    /\ vpc' = "run"
    /\ UNCHANGED <<files, charts, exception, html, genVars, replayVars, uploadVars>>

\* app.run(debug=True, port=8050)
RunServer ==
    /\ vpc = "run"
    /\ vpc' = "serving"
    /\ UNCHANGED <<files, charts, printed, exception, html, images, genVars, replayVars, uploadVars>>

\* the generator is another process, not started here
GenOff ==
    /\ pc = "off"
    /\ stream = "mixed"
    /\ entropy = NotRead
    /\ now = 0
    /\ drift = 0
    /\ npPos = 0
    /\ pyPos = 0
    /\ written = {}
    /\ devices = <<>>
    /\ performance = <<>>
    /\ loads = <<>>
    /\ heatmap_data = <<>>
    /\ heat_df = NoFrame
    /\ flows = <<>>
    /\ events = <<>>
    /\ events_df = <<>>
    /\ summary = <<>>
    /\ config = GoodConfig
    /\ data_dir = "present"
    /\ run = 1
    /\ firstRun = NoTables

\* the directories got from those of D by putting one file out of order
Spoil(D) ==
    UNION {UNION {{[d EXCEPT ![f] = x] : x \in {NoFile, Unparseable} \cup Malformed(f)} :
                     f \in CsvFiles} : d \in D}

\* the directories with at most n files out of order
RECURSIVE Spoiled(_)
Spoiled(n) ==
    IF n = 0 THEN {[f \in CsvFiles |-> Good(f)]}
    ELSE Spoiled(n - 1) \cup Spoil(Spoiled(n - 1))

\* the states data/ can be in when the renderer starts
DataDirs == Spoiled(MaxBadFiles)

InitViz ==
    /\ GenOff
    /\ UploadOff
    /\ vpc = "load"
    /\ files \in DataDirs
    /\ charts = {}
    /\ printed = {}
    /\ exception = "none"
    /\ html = FALSE
    /\ images = {}

NextViz ==
    \/ LoadData
    \/ KpiCards
    \/ create_map
    \/ create_sankey
    \/ create_heatmap
    \/ create_donut
    \/ create_barchart
    \/ EventsTable
    \/ SaveHtml
    \/ save_plot_images
    \/ RunServer

SpecViz == InitViz /\ [][NextViz]_vars

--------------------------------------------------------------------------
(* data_gen.py run with a weight vector out of order, or without the
   directory data/ *)

\* the configurations tried: the script's own; all city weights zero; all
\* event-type weights zero; the status_probs of one branch summing to 0.9
InitConfig ==
    /\ VizOff
    /\ UploadOff
    /\ pc = "devices"
    /\ stream = "mixed"
    /\ entropy = NotRead
    /\ now = Instant(2025, 7, 4, 9, 59)
    /\ drift = 0
    /\ npPos = 0
    /\ pyPos = 0
    /\ written = {}
    /\ devices = <<>>
    /\ performance = <<>>
    /\ loads = <<>>
    /\ heatmap_data = <<>>
    /\ heat_df = NoFrame
    /\ flows = <<>>
    /\ events = <<>>
    /\ events_df = <<>>
    /\ summary = <<>>
    /\ config \in {GoodConfig,
                    [GoodConfig EXCEPT !.city_weights = <<0, 0, 0, 0, 0>>],
                    [GoodConfig EXCEPT !.event_types = <<0, 0, 0, 0, 0>>]}
                       \cup {[GoodConfig EXCEPT !.status_probs[b] = <<50, 15, 20, 5>>] :
                                b \in 1..4}
    /\ data_dir \in {"present", "absent"}
    /\ run = 1
    /\ firstRun = NoTables

SpecConfig == InitConfig /\ [][Next]_vars

--------------------------------------------------------------------------
(* upload.py: the upload utility.  It asks for a data row id and for a
   confirmation, then walks the folders data, outputs and scripts and calls
   upload_file_to_gcs for the files it selects.  Names, paths and typed
   lines are sequences of character codes *)

Dot == 46
Slash == 47
Backslash == 92

\* str.lower()
Lower(s) == [i \in 1..Len(s) |-> IF s[i] \in 65..90 THEN s[i] + 32 ELSE s[i]]

\* str.strip(): removes tab, newline, vertical tab, form feed, carriage
\* return and space at both ends
RECURSIVE Strip(_)
Strip(s) ==
    LET whitespace == {9, 10, 11, 12, 13, 32}
    IN  IF s = <<>> THEN s
        ELSE IF s[1] \in whitespace THEN Strip(Tail(s))
        ELSE IF s[Len(s)] \in whitespace THEN Strip(SubSeq(s, 1, Len(s) - 1))
        ELSE s

\* mutant: the id is not tested for its characters
IsAlnumSkipped(s) == TRUE

\* str.isalnum(): a non-empty string of digits and letters, those beyond
\* ASCII included, which 233 (e with acute accent) stands for
IsAlnum(s) ==
    LET alnum == (48..57) \cup (65..90) \cup (97..122) \cup {233}
    IN  s # <<>> /\ \A i \in 1..Len(s) : s[i] \in alnum

\* str.startswith(prefix)
StartsWith(s, prefix) == Len(s) >= Len(prefix) /\ SubSeq(s, 1, Len(prefix)) = prefix

\* str.replace(old, new) for single characters
Replace(s, old, new) == [i \in 1..Len(s) |-> IF s[i] = old THEN new ELSE s[i]]

\* the last position of s holding a character of C, 0 when there is none
RFind(s, C) ==
    LET I == {i \in 1..Len(s) : s[i] \in C}
    IN  IF I = {} THEN 0 ELSE CHOOSE i \in I : \A j \in I : j <= i

\* the path separators of the platform: os.sep and os.altsep
Seps == IF os_sep = Backslash THEN {Backslash, Slash} ELSE {Slash}

\* os.path.splitext(p)[1]: from the last dot on, unless only dots come
\* before it in the last component
SplitExt(p) ==
    LET sepIndex == RFind(p, Seps)
        dotIndex == RFind(p, {Dot})
    IN  IF dotIndex > sepIndex /\ \E k \in (sepIndex + 1)..(dotIndex - 1) : p[k] # Dot
        THEN SubSeq(p, dotIndex, Len(p))
        ELSE <<>>

\* os.path.join(a, b) for a relative b
PathJoin(a, b) == IF a = <<>> \/ a[Len(a)] \in Seps THEN a \o b ELSE a \o <<os_sep>> \o b

\* os.path.relpath(os.path.join(root, file), local_dir) for a file in the
\* directory dir (a sequence of names) below local_dir
RECURSIVE RelPath(_, _)
RelPath(dir, name) ==
    IF dir = <<>> THEN name ELSE PathJoin(Head(dir), RelPath(Tail(dir), name))

\* '.py', '.html', '.csv', '.png', '.npy'
allowed_exts ==
    { <<46, 112, 121>>, <<46, 104, 116, 109, 108>>, <<46, 99, 115, 118>>,
      <<46, 112, 110, 103>>, <<46, 110, 112, 121>> }

\* the keys of folders, in the order of the dict: data, outputs, scripts
FolderKeys ==
    << <<100, 97, 116, 97>>, <<111, 117, 116, 112, 117, 116, 115>>,
       <<115, 99, 114, 105, 112, 116, 115>> >>

\* the call of upload_file_to_gcs for a file, which is the index of its
\* folder, the directory it is in below the folder, and its name;
\* blob.upload_from_filename sends the file at file_path as it is
UploadCall(file, gcs_dir) ==
    [file_path |-> file,
     destination_blob_name |->
         Replace(PathJoin(gcs_dir, RelPath(file.dir, file.name)), Backslash, Slash)]

\* upload_directory_to_gcs(local_dir, bucket_name, gcs_dir, credentials) for
\* the folder with index k: the calls made during the walk
upload_directory_to_gcs(k, gcs_dir) ==
    {UploadCall(file, gcs_dir) :
        file \in {f \in tree : f.folder = k /\ Lower(SplitExt(f.name)) \in allowed_exts}}

\* the lines typed at the first prompt: 'cm1', ' cm' with an accented e and
\* blanks around it, 'cm-1', 'CM1', ''
TypedIds ==
    { <<99, 109, 49>>, <<32, 99, 109, 233, 32>>, <<99, 109, 45, 49>>, <<67, 77, 49>>, <<>> }

\* the lines typed at the second prompt: 'yes', ' YES ', 'y', 'no', ''
TypedConfirms ==
    { <<121, 101, 115>>, <<32, 89, 69, 83, 32>>, <<121>>, <<110, 111>>, <<>> }

\* lines 38-42: the prompt is repeated until the id is accepted
AskDataRowId ==
    /\ upc = "ask_id"
    /\ \E typed \in TypedIds :
         /\ data_row_id' = Strip(typed)
         /\ IF StartsWith(data_row_id', <<99, 109>>) /\ IsAlnum(data_row_id')
            THEN upc' = "confirm" /\ UNCHANGED shown
            ELSE shown' = shown \cup {"Invalid Data Row ID"} /\ UNCHANGED upc
    /\ UNCHANGED <<os_sep, tree, present, confirm, folder, uploads, genVars, replayVars,
                   vizVars>>

\* lines 44-49: anything but 'yes' ends the utility
AskConfirm ==
    /\ upc = "confirm"
    /\ \E typed \in TypedConfirms :
         /\ confirm' = Lower(Strip(typed))
         /\ IF confirm' = <<121, 101, 115>>
            THEN upc' = "upload" /\ UNCHANGED shown
            ELSE shown' = shown \cup {"Upload cancelled."} /\ upc' = "exited"
    /\ UNCHANGED <<os_sep, tree, present, data_row_id, folder, uploads, genVars,
                   replayVars, vizVars>>

\* lines 73-78: one pass of the loop over the folders
UploadFolder ==
    /\ upc = "upload"
    /\ IF folder \in present
       THEN /\ LET gcs_dir == data_row_id \o <<Slash>> \o FolderKeys[folder] \o <<Slash>>
               IN  uploads' = uploads \cup upload_directory_to_gcs(folder, gcs_dir)
            /\ UNCHANGED shown
       ELSE /\ shown' = shown \cup {"Warning: folder does not exist, skipping."}
            /\ UNCHANGED uploads
    /\ IF folder < Len(FolderKeys)
       THEN folder' = folder + 1 /\ UNCHANGED upc
       ELSE upc' = "report" /\ UNCHANGED folder
    /\ UNCHANGED <<os_sep, tree, present, data_row_id, confirm, genVars, replayVars, vizVars>>

\* lines 80-84
PrintUris ==
    /\ upc = "report"
    /\ shown' = shown \cup {"Copy-paste the following into the Labelbox editor"}
    /\ upc' = "done"
    /\ UNCHANGED <<os_sep, tree, present, data_row_id, confirm, folder, uploads, genVars,
                   replayVars, vizVars>>

\* number of files under the three folders
MaxFiles == 1

\* the file names tried: a stem 'a', 'a\b' or none, then '.py', '.PY',
\* '.csv', '.html', '.png', '.npy', '.pyc', 'csv' or nothing
\* a file name holds no separator of its platform
FileNames(sep) ==
    LET stems == { <<97>>, <<97, 92, 98>>, <<>> }
        suffixes ==
            { <<46, 112, 121>>, <<46, 80, 89>>, <<46, 99, 115, 118>>,
              <<46, 104, 116, 109, 108>>, <<46, 112, 110, 103>>, <<46, 110, 112, 121>>,
              <<46, 112, 121, 99>>, <<99, 115, 118>>, <<>> }
        seps == IF sep = Backslash THEN {Backslash, Slash} ELSE {Slash}
    IN  {n \in {stem \o suffix : stem \in stems, suffix \in suffixes} :
            n # <<>> /\ \A i \in 1..Len(n) : n[i] \notin seps}

\* the files there can be: in a folder or in its subdirectory 'a'
LocalFiles(sep) ==
    {[folder |-> k, dir |-> dir, name |-> name] :
        k \in 1..Len(FolderKeys), dir \in {<<>>, << <<97>> >>}, name \in FileNames(sep)}

\* the sets of at most n files
RECURSIVE Trees(_, _)
Trees(sep, n) ==
    IF n = 0 THEN {{}}
    ELSE LET smaller == Trees(sep, n - 1)
         IN  smaller \cup
             UNION {{t \cup {f} : f \in LocalFiles(sep)} : t \in smaller}

InitUpload ==
    /\ GenOff
    /\ VizOff
    /\ upc = "ask_id"
    /\ os_sep \in {Slash, Backslash}
    /\ tree \in Trees(os_sep, MaxFiles)
    /\ present \in {P \in SUBSET (1..Len(FolderKeys)) : \A f \in tree : f.folder \in P}
    /\ data_row_id = <<>>
    /\ confirm = <<>>
    /\ folder = 1
    /\ uploads = {}
    /\ shown = {}

NextUpload ==
    \/ AskDataRowId
    \/ AskConfirm
    \/ UploadFolder
    \/ PrintUris

SpecUpload == InitUpload /\ [][NextUpload]_vars

--------------------------------------------------------------------------
(* Properties of the generator *)

Written(file) == file \in written

RosterIds == {devices[i].device_id : i \in 1..Len(devices)}

\* C1: once the performance table is written, it and the roster are in
\* bijection on device_id: the ids of the performance rows are the roster ids,
\* and there are as many rows as roster ids, so no id has two rows
C1_PerformanceBijection ==
    Written("performance.csv") =>
        /\ {performance[j].device_id : j \in 1..Len(performance)} = RosterIds
        /\ Cardinality(RosterIds) = Len(performance)

C1_Witness ==
    /\ pc = "done"
    /\ Len(devices) = num_devices
    /\ Len(performance) = num_devices
    /\ \E i \in 1..Len(devices) : devices[i].status = "Inactive"

\* C2: the written idle heatmap has exactly 50 rows, the first 50 roster
\* devices, and 7 weekday columns; every (device, weekday) pair is appended
\* exactly once; every cell holds an integer in 0..180
C2_HeatmapDense ==
    Written("idle_heatmap.csv") =>
        /\ Len(heat_df.index) = 50
        /\ Len(heat_df.columns) = 7
        /\ {heat_df.index[r] : r \in 1..Len(heat_df.index)}
               = {devices[i].device_id : i \in 1..50}
        /\ {heat_df.columns[c] : c \in 1..Len(heat_df.columns)}
               = {Monday, Tuesday, Wednesday, Thursday, Friday, Saturday, Sunday}
        /\ Len(heatmap_data) = 50 * 7
        /\ Cardinality({<<heatmap_data[k].device_id, heatmap_data[k].day>> :
                           k \in 1..Len(heatmap_data)}) = 50 * 7
        /\ \A r \in 1..Len(heat_df.index) : \A c \in 1..Len(heat_df.columns) :
              /\ heat_df.cell[r][c] # NaN
              /\ heat_df.cell[r][c][1] \in 0..180

C2_Witness ==
    /\ Written("idle_heatmap.csv")
    /\ \E r \in 1..Len(heat_df.index) : \E c \in 1..Len(heat_df.columns) :
          heat_df.cell[r][c] = <<180>>
    /\ \E r \in 1..Len(heat_df.index) : \E c \in 1..Len(heat_df.columns) :
          heat_df.cell[r][c] \notin {<<0>>, <<180>>, NaN}

\* C3: the daily-load table has 28 rows whose dates are pairwise distinct
\* calendar days, row i (0-based) carrying the day i days before the first
\* row's, and its week bucket goes by the offset: 0-6 current, 7-13 last,
\* 14-27 older
C3_LoadsWindow ==
    Written("loads_by_day.csv") =>
        /\ Len(loads) = 28
        /\ \A k \in 1..Len(loads) :
              /\ DayOf(loads[k].date) = DayOf(loads[1].date) - (k - 1)
              /\ (k - 1 \in 0..6) => loads[k].week = "current"
              /\ (k - 1 \in 7..13) => loads[k].week = "last"
              /\ (k - 1 \in 14..27) => loads[k].week = "older"
        /\ \A j, k \in 1..Len(loads) :
              j # k => DayOf(loads[j].date) # DayOf(loads[k].date)

\* C15: the base load is an upward trend over time: of two rows of the
\* daily-load table, the one with the later calendar date has the greater or
\* equal base load (row k is built from BaseLoad(k - 1)), and the earliest
\* day of the window has the base load 100
C15_BaseLoadGrowsOverTime ==
    Written("loads_by_day.csv") =>
        /\ \A j, k \in 1..Len(loads) :
              DayOf(loads[j].date) < DayOf(loads[k].date) => BaseLoad(j - 1) <= BaseLoad(k - 1)
        /\ \A k \in 1..Len(loads) :
              (\A j \in 1..Len(loads) : DayOf(loads[k].date) <= DayOf(loads[j].date))
                  => BaseLoad(k - 1) = 1000

\* the days since maintenance of the device at roster position j, the clock
\* showing t
DaysSince(j, t) == (t - ParseDate(devices[j].last_maintenance)) \div MinutesPerDay

\* the normal(0, 3) noise of the uptime of row j, in hundredths: the fourth
\* of the six draws of the row, the rows starting after the roster's draws
UptimeNoise(j) == 3 * StdNormal(NpDraw(4 * num_devices + 6 * (j - 1) + 3))

\* C16: in every performance record, uptime_percent lies in 70..99 and
\* avg_speed in 10..65 (both written in tenths); the uptime is 95 minus one
\* point per 10 days since maintenance, plus the noise, clamped and rounded
\* to one decimal, for whatever number of days the record has
C16_UptimeAndSpeedInRange ==
    Written("performance.csv") =>
        \A j \in 1..Len(performance) :
            /\ performance[j].uptime_percent \in 700..990
            /\ performance[j].avg_speed \in 100..650
            /\ \E t \in (now - drift)..now :
                  LET d == DaysSince(j, t)
                      noisy == 9500 - 10 * d + UptimeNoise(j)
                      clamped == IF noisy < 7000 THEN 7000
                                 ELSE IF noisy > 9900 THEN 9900 ELSE noisy
                  IN  /\ d \in 0..180
                      /\ 10 * performance[j].uptime_percent - clamped \in -5..5

\* a performance table with an uptime clamped at 99, one clamped at 70 and
\* one strictly between, and a speed clamped at 10 or at 65
C16_Witness ==
    /\ Written("performance.csv")
    /\ \E j \in 1..Len(performance) : performance[j].uptime_percent = 990
    /\ \E j \in 1..Len(performance) : performance[j].uptime_percent = 700
    /\ \E j \in 1..Len(performance) : performance[j].uptime_percent \in 701..989
    /\ \E j \in 1..Len(performance) : performance[j].avg_speed \in {100, 650}

\* the sum of a column of the performance table and of the cells of the
\* heatmap, accumulated row by row
DeliveriesUpTo[k \in 0..num_devices] ==
    IF k = 0 THEN 0 ELSE DeliveriesUpTo[k - 1] + performance[k].total_deliveries

RowIdleUpTo[r \in 1..50, c \in 0..7] ==
    IF c = 0 THEN 0 ELSE RowIdleUpTo[r, c - 1] + heat_df.cell[r][c][1]

IdleUpTo[r \in 0..50] ==
    IF r = 0 THEN 0 ELSE IdleUpTo[r - 1] + RowIdleUpTo[r, 7]

\* C4: in the summary row, completed_loads is the sum of total_deliveries
\* over the performance rows, and total_idling_hr (in tenths) is the sum of
\* the heatmap cells divided by 60 rounded to one decimal: no tenth is nearer
C4_SummarySums ==
    Written("summary_metrics.csv") =>
        /\ summary.completed_loads = DeliveriesUpTo[Len(performance)]
        /\ 6 * summary.total_idling_hr - IdleUpTo[Len(heat_df.index)] \in -3..3

C4_Witness ==
    /\ Written("summary_metrics.csv")
    /\ summary.completed_loads > 0
    /\ summary.total_idling_hr > 0
    /\ IdleUpTo[Len(heat_df.index)] % 6 # 0

\* C6: in every row of the event table, as appended and as written, details
\* is the empty string for Departure and Arrival and non-empty for
\* Maintenance, Inspection and Alert
C6_DetailsByType ==
    Written("warehouse_events.csv") =>
        \A k \in 1..Len(events_df) :
            /\ events_df[k].event_type \in {"Departure", "Arrival"}
                   => events_df[k].details = <<>>
            /\ events_df[k].event_type \in {"Maintenance", "Inspection", "Alert"}
                   => events_df[k].details # <<>>
            /\ events[k].event_type \in {"Departure", "Arrival"}
                   <=> events[k].details = <<>>

C6_Witness ==
    /\ Written("warehouse_events.csv")
    /\ \A ty \in {"Departure", "Arrival", "Maintenance", "Inspection", "Alert"} :
          \E k \in 1..Len(events_df) : events_df[k].event_type = ty

\* C7: no two roster devices share a device_id, and the device at roster
\* position i (1..75) has the id 'D' followed by i as three digits
C7_DeviceIds ==
    Written("device_master.csv") =>
        /\ Len(devices) = 75
        /\ \A i \in 1..Len(devices) :
              devices[i].device_id
                  = <<68, 48 + (i \div 100), 48 + ((i \div 10) % 10), 48 + (i % 10)>>
        /\ Cardinality(RosterIds) = Len(devices)

C7_Witness ==
    /\ Written("device_master.csv")
    /\ devices[1].device_id = <<68, 48, 48, 49>>
    /\ devices[75].device_id = <<68, 48, 55, 53>>

\* C8: the written event table has exactly 250 rows, the events appended,
\* ordered by timestamp descending: no row's timestamp is below the next row's
C8_EventsSorted ==
    Written("warehouse_events.csv") =>
        /\ Len(events_df) = 250
        /\ \A k \in 1..(Len(events_df) - 1) :
              ~StrLess(events_df[k].timestamp, events_df[k + 1].timestamp)
        /\ {events_df[k] : k \in 1..Len(events_df)} = {events[k] : k \in 1..Len(events)}

C8_Witness ==
    /\ Written("warehouse_events.csv")
    /\ Len(events_df) = 250
    /\ events_df # events
    /\ \E k \in 1..249 : StrLess(events_df[k + 1].timestamp, events_df[k].timestamp)
    /\ \E k \in 1..249 : events_df[k + 1].timestamp = events_df[k].timestamp

\* C5: two runs of the generator with the same seed (42), the same fixed
\* clock instant and the same device count (75) write identical contents
\* to all seven CSV files, the order of the flow edges and the text of the
\* event details included
C5_DeterministicReplay ==
    (run = 2 /\ pc = "done") => Tables = firstRun

\* C11: the pivot keeps the order of its input: the rows of the written
\* heatmap table are the first 50 roster devices in roster order, and its
\* columns are Monday, Tuesday, Wednesday, Thursday, Friday, Saturday, Sunday
\* in that order
C11_PivotKeepsOrder ==
    Written("idle_heatmap.csv") =>
        /\ heat_df.index = [r \in 1..50 |-> devices[r].device_id]
        /\ heat_df.columns = days

\* the roster positions at which a zone name appears for the first time
FirstSeen == {k \in 1..Len(devices) : \A j \in 1..(k - 1) : devices[j].zone # devices[k].zone}

\* the distinct zone names of the roster in the order of their first rows
FirstSeenZones ==
    [i \in 1..Cardinality(FirstSeen) |->
        devices[CHOOSE k \in FirstSeen : Cardinality({j \in FirstSeen : j <= k}) = i].zone]

\* the dispatch edges of the flow table, in table order
DispatchEdges == SelectSeq(flows, LAMBDA e : e.type = "dispatch")

\* C12: the Warehouse-to-zone edges list each distinct zone of the roster
\* exactly once, in the order in which the zones first appear in the roster
C12_ZonesFirstSeenOrder ==
    Written("sankey_flows.csv") =>
        [k \in 1..Len(DispatchEdges) |-> DispatchEdges[k].trg] = FirstSeenZones

\* the zone names of the roster
RosterZones == {devices[k].zone : k \in 1..Len(devices)}

\* the positions of the flow table holding an edge of a type from src to trg
EdgesAt(type, src, trg) ==
    {k \in 1..Len(flows) : flows[k].type = type /\ flows[k].src = src /\ flows[k].trg = trg}

\* C13: the flow table is a two-level graph without cycles: every edge is a
\* dispatch edge from Warehouse to a roster zone or a status edge from a
\* roster zone to one of the four statuses; each zone has one incoming
\* dispatch edge and four outgoing status edges, one per status; no name is
\* at two levels
C13_FlowsTwoLevels ==
    Written("sankey_flows.csv") =>
        LET statuses == {StatusNames[st] : st \in 1..Len(StatusNames)}
        IN  /\ statuses = {"Moving", "Idling", "On-route", "Inactive"}
            /\ \A k \in 1..Len(flows) :
                   \/ /\ flows[k].type = "dispatch"
                      /\ flows[k].src = "Warehouse"
                      /\ flows[k].trg \in RosterZones
                   \/ /\ flows[k].type = "status"
                      /\ flows[k].src \in RosterZones
                      /\ flows[k].trg \in statuses
            /\ \A z \in RosterZones :
                   /\ Cardinality(EdgesAt("dispatch", "Warehouse", z)) = 1
                   /\ \A st \in statuses : Cardinality(EdgesAt("status", z, st)) = 1
                   /\ Cardinality({k \in 1..Len(flows) : flows[k].src = z}) = 4
            /\ RosterZones \cap (statuses \cup {"Warehouse"}) = {}
            /\ "Warehouse" \notin statuses

\* a flow table written for a roster in which two cities share a zone name
C13_Witness ==
    /\ Written("sankey_flows.csv")
    /\ Len(flows) = 5 * Cardinality(RosterZones)
    /\ Cardinality(RosterZones) > 1
    /\ \E i, j \in 1..Len(devices) :
           devices[i].zone = devices[j].zone /\ devices[i].city # devices[j].city

\* C14: with a weight vector out of order (the city weights, the status
\* probabilities of a branch, or the event-type weights), or with no output
\* directory at the start, the run fails, and it does so before any CSV file
\* is written
C14_ConfigErrorFailsFast ==
    (config # GoodConfig \/ data_dir # "present") =>
        /\ written = {}
        /\ pc # "done"

--------------------------------------------------------------------------
(* Properties of the renderer *)

\* C9: if any of the seven CSV files is missing or malformed when the
\* renderer loads its data, no chart is built and the HTML page is not
\* written: the run ends with an exception propagated out of the script,
\* which reports it
C9_AbortOnBadInput ==
    (vpc # "off" /\ \E f \in CsvFiles : files[f] # Good(f)) =>
        /\ charts = {}
        /\ ~html
        /\ vpc \notin {"main", "run", "serving"}
        /\ vpc = "aborted" => exception # "none"

--------------------------------------------------------------------------
(* Properties of the upload utility *)

\* the extension of a file name: what follows its stem, from the last dot on
Extension(name) ==
    LET dots == {i \in 2..Len(name) : name[i] = Dot /\ \E k \in 1..(i - 1) : name[k] # Dot}
    IN  IF dots = {} THEN <<>>
        ELSE SubSeq(name, CHOOSE i \in dots : \A j \in dots : j <= i, Len(name))

\* the object name of a path: its component names, each followed by a slash
RECURSIVE Slashed(_)
Slashed(names) == IF names = <<>> THEN <<>> ELSE Head(names) \o <<Slash>> \o Slashed(Tail(names))

\* prefix, folder name, and the file's path relative to the folder
Destination(prefix, file) ==
    Slashed(<<prefix, FolderKeys[file.folder]>>) \o Slashed(file.dir) \o file.name

\* C10: once the three folders have been walked, the uploads issued are
\* those of the files whose extension, lower-cased, is .py, .html, .csv,
\* .png or .npy; each one sends the file itself to the name made of the
\* prefix typed, the folder name and the file's path relative to the folder
C10_UploadsAllowedFiles ==
    upc \in {"report", "done"} =>
        uploads = {[file_path |-> f, destination_blob_name |-> Destination(data_row_id, f)] :
                      f \in {g \in tree : Lower(Extension(g.name)) \in allowed_exts}}

\* an id as the first prompt asks for it: 'cm', then letters and digits only
WellFormedId(id) ==
    /\ Len(id) >= 2
    /\ id[1] = 99
    /\ id[2] = 109
    /\ \A i \in 1..Len(id) :
          \/ id[i] \in 48..57
          \/ id[i] \in 65..90
          \/ id[i] \in 97..122
          \/ id[i] = 233

\* C17: an upload is issued only after an id that starts with 'cm' and is
\* alphanumeric has been entered and the confirmation has been answered with
\* yes (trimmed, in any case); the first prompt is left only with such an
\* id; any other answer to the confirmation ends the run with no upload
C17_NoUploadBeforeConfirmation ==
    /\ uploads # {} => WellFormedId(data_row_id) /\ confirm = <<121, 101, 115>>
    /\ upc # "ask_id" => WellFormedId(data_row_id)
    /\ upc \in {"upload", "report", "done"} => confirm = <<121, 101, 115>>
    /\ upc = "exited" => uploads = {} /\ confirm # <<121, 101, 115>>
    /\ confirm # <<121, 101, 115>> => uploads = {}

\* uploads issued in a run in which an invalid id was typed first and the
\* id accepted was typed with blanks around it
C17_Witness ==
    /\ upc = "done"
    /\ uploads # {}
    /\ "Invalid Data Row ID" \in shown
    /\ data_row_id = <<99, 109, 233>>

====
